---- MODULE Spec2Model ----
(***************************************************************************)
(* Model of scenarios/classification/24_exploring_hyperparameters_on_      *)
(* azureml.ipynb: the generated training script train.py (argument         *)
(* parsing, the three guards, the two training phases, the four log        *)
(* entries, the export) and the notebook cells that drive the sweep        *)
(* (compute target, HyperDrive configuration, submit, wait, best run,      *)
(* download).                                                              *)
(*                                                                         *)
(* Two specifications:                                                     *)
(*   SpecTrain  one invocation of train.py with an arbitrary command line  *)
(*   Spec       the notebook, cell by cell, with the sweep's child runs    *)
(***************************************************************************)
EXTENDS Integers, Sequences, FiniteSets, TLC

(***************************************************************************)
(* Optional values: Python's None is the empty tuple, a value v is <<v>>.  *)
(***************************************************************************)
None == <<>>

Some(v) == <<v>>

IsNone(o) == o = None

Val(o) == o[1]

(***************************************************************************)
(* train.py: constants                                                     *)
(***************************************************************************)
EPOCHS_HEAD == 4

EPOCHS_BODY == 12

\* model_name + ".pkl" under the 'outputs' folder of the run
EXPORT_PATH == "outputs/im_classif_resnet.pkl"

(***************************************************************************)
(* Notebook parameters of the search space.  Learning rates are counted in *)
(* units of 1e-5, so that 1e-5 is 1 and 1e-3 is 100.                       *)
(***************************************************************************)
IM_SIZES == {150, 300}

LEARNING_RATE_MAX == 100

LEARNING_RATE_MIN == 1

(***************************************************************************)
(* Command-line values are strings.  int() and float() as argparse applies *)
(* them (type=int, type=float): a string that does not convert is None     *)
(* here, and makes parse_args exit.                                        *)
(***************************************************************************)
IntOf(s) ==
    CASE s = "150" -> Some(150)
      [] s = "300" -> Some(300)
      [] OTHER -> None

FloatOf(s) ==
    CASE s = "1e-05" -> Some(1)
      [] s = "0.001" -> Some(100)
      [] s = "150" -> Some(15000000)
      [] s = "300" -> Some(30000000)
      [] OTHER -> None

\* str(): how the platform writes a sampled value into the argument list
StrOfInt(n) ==
    CASE n = 150 -> "150"
      [] n = 300 -> "300"
      [] OTHER -> "?"

StrOfFloat(x) ==
    CASE x = 1 -> "1e-05"
      [] x = 100 -> "0.001"
      [] OTHER -> "?"

(***************************************************************************)
(* Events a run of train.py produces, in the order it produces them.       *)
(***************************************************************************)
Ev(op, key, text, num, lr, frozen) ==
    [op |-> op, key |-> key, text |-> text, num |-> num, lr |-> lr, frozen |-> frozen]

EvData(path, size) == Ev("databunch", "", path, size, 0, FALSE)

EvFit(epochs, lr, frozen) == Ev("fit_one_cycle", "", "", epochs, lr, frozen)

EvUnfreeze == Ev("unfreeze", "", "", 0, 0, FALSE)

EvLogText(key, text) == Ev("log", key, text, 0, 0, FALSE)

EvLogNum(key, num) == Ev("log", key, "", num, 0, FALSE)

EvExport(path) == Ev("export", "", path, 0, 0, FALSE)

(***************************************************************************)
(* A process running train.py.  argv holds the three options as optional   *)
(* strings (None: the option is not on the command line).                  *)
(***************************************************************************)
NoParams == [IM_SIZE |-> None, LEARNING_RATE |-> None, DATA_DIR |-> None]

StartTrain(argv) ==
    [pc |-> "parse_args", argv |-> argv, params |-> NoParams, frozen |-> TRUE,
     accuracy |-> None, trace |-> <<>>, error |-> "none"]

\* parser.parse_args(): each option present is converted by its type
ArgsConvert(argv) ==
    /\ (~IsNone(argv.im_size) => ~IsNone(IntOf(Val(argv.im_size))))
    /\ (~IsNone(argv.learning_rate) => ~IsNone(FloatOf(Val(argv.learning_rate))))

ParseArgs(p) ==
    IF ~ArgsConvert(p.argv)
    THEN [p EXCEPT !.pc = "exited", !.error = "SystemExit"]
    ELSE [p EXCEPT
            !.pc = "guard_im_size",
            !.params =
                [IM_SIZE |-> IF IsNone(p.argv.im_size) THEN None
                             ELSE IntOf(Val(p.argv.im_size)),
                 LEARNING_RATE |-> IF IsNone(p.argv.learning_rate) THEN None
                                   ELSE FloatOf(Val(p.argv.learning_rate)),
                 DATA_DIR |-> p.argv.data_folder]]

Raise(p, msg) == [p EXCEPT !.pc = "raised", !.error = msg]

GuardImSize(p) ==
    IF IsNone(p.params.IM_SIZE)
    THEN Raise(p, "Image Size empty")
    ELSE [p EXCEPT !.pc = "guard_learning_rate"]

GuardLearningRate_wrongkey(p) ==
    IF IsNone(p.params.IM_SIZE)
    THEN Raise(p, "Learning Rate empty")
    ELSE [p EXCEPT !.pc = "guard_data_dir"]

GuardLearningRate(p) ==
    IF IsNone(p.params.LEARNING_RATE)
    THEN Raise(p, "Learning Rate empty")
    ELSE [p EXCEPT !.pc = "guard_data_dir"]

GuardDataDir_noabort(p) ==
    IF IsNone(p.params.DATA_DIR)
    THEN [p EXCEPT !.pc = "databunch", !.error = "Data folder empty",
                   !.params.DATA_DIR = Some("")]
    ELSE [p EXCEPT !.pc = "databunch"]

GuardDataDir(p) ==
    IF IsNone(p.params.DATA_DIR)
    THEN Raise(p, "Data folder empty")
    ELSE [p EXCEPT !.pc = "databunch"]

Emit(p, ev, next) == [p EXCEPT !.trace = Append(@, ev), !.pc = next]

\* ImageList.from_folder(path)...transform(size=IM_SIZE).databunch(...); path is
\* DATA_DIR + '/data/fridgeObjects', recorded here by its DATA_DIR part
DataBunch(p) ==
    Emit(p, EvData(Val(p.params.DATA_DIR), Val(p.params.IM_SIZE)), "cnn_learner")

\* cnn_learner builds the learner with the pretrained body frozen
CnnLearner(p) == [p EXCEPT !.frozen = TRUE, !.pc = "fit_head"]

FitHead(p) ==
    Emit(p, EvFit(EPOCHS_HEAD, Val(p.params.LEARNING_RATE), p.frozen), "unfreeze")

Unfreeze(p) == [Emit(p, EvUnfreeze, "fit_body") EXCEPT !.frozen = FALSE]

FitBody_headepochs(p) ==
    Emit(p, EvFit(EPOCHS_HEAD, Val(p.params.LEARNING_RATE), p.frozen), "metrics")

FitBody(p) ==
    Emit(p, EvFit(EPOCHS_BODY, Val(p.params.LEARNING_RATE), p.frozen), "metrics")

\* accuracy = last value of learn.recorder.metrics; acc is what training gave
Metrics(p, acc) == [p EXCEPT !.accuracy = Some(acc), !.pc = "log_data_dir"]

LogDataDir(p) == Emit(p, EvLogText("data_dir", Val(p.params.DATA_DIR)), "log_im_size")

LogImSize(p) == Emit(p, EvLogNum("im_size", Val(p.params.IM_SIZE)), "log_learning_rate")

LogLearningRate_early(p) ==
    Emit(p, EvLogNum("learning_rate", Val(p.params.LEARNING_RATE)), "export")

LogLearningRate(p) ==
    Emit(p, EvLogNum("learning_rate", Val(p.params.LEARNING_RATE)), "log_accuracy")

LogAccuracy(p) == Emit(p, EvLogNum("accuracy", Val(p.accuracy)), "export")

Export(p) == Emit(p, EvExport(EXPORT_PATH), "done")

TrainTerminal == {"done", "raised", "exited", "crashed"}

\* One statement of train.py
TrainStep(p, acc) ==
    CASE p.pc = "parse_args" -> ParseArgs(p)
      [] p.pc = "guard_im_size" -> GuardImSize(p)
      [] p.pc = "guard_learning_rate" -> GuardLearningRate(p)
      [] p.pc = "guard_data_dir" -> GuardDataDir(p)
      [] p.pc = "databunch" -> DataBunch(p)
      [] p.pc = "cnn_learner" -> CnnLearner(p)
      [] p.pc = "fit_head" -> FitHead(p)
      [] p.pc = "unfreeze" -> Unfreeze(p)
      [] p.pc = "fit_body" -> FitBody(p)
      [] p.pc = "metrics" -> Metrics(p, acc)
      [] p.pc = "log_data_dir" -> LogDataDir(p)
      [] p.pc = "log_im_size" -> LogImSize(p)
      [] p.pc = "log_learning_rate" -> LogLearningRate(p)
      [] p.pc = "log_accuracy" -> LogAccuracy(p)
      [] p.pc = "export" -> Export(p)
      [] OTHER -> p

RECURSIVE RunUntil(_, _, _)
\* train.py run up to (not including) the statement at pc stop, or to its end
RunUntil(p, acc, stop) ==
    IF p.pc = stop \/ p.pc \in TrainTerminal THEN p
    ELSE RunUntil(TrainStep(p, acc), acc, stop)

\* What a run leaves behind: the value logged under a key, the exported files
LoggedNum(p, key) ==
    LET hits == {i \in 1..Len(p.trace) : p.trace[i].op = "log" /\ p.trace[i].key = key}
    IN  IF hits = {} THEN None
        ELSE Some(p.trace[CHOOSE i \in hits : \A j \in hits : j <= i].num)

Exported(p) == {p.trace[i].text : i \in {j \in 1..Len(p.trace) : p.trace[j].op = "export"}}

(***************************************************************************)
(* Notebook: parameters cell.  MAX_NODES and MAX_TOTAL_RUNS are parameters *)
(* of the notebook (12 and 10 unless overridden); the model runs the       *)
(* notebook with the values below.                                         *)
(***************************************************************************)
MAX_NODES == 2

MAX_TOTAL_RUNS == 3

CLUSTER_NAME == "gpu-cluster"

\* AmlCompute.provisioning_configuration(vm_size, min_nodes=0, max_nodes=MAX_NODES)
ProvisioningConfiguration ==
    [vm_size |-> "STANDARD_NC6", min_nodes |-> 0, max_nodes |-> MAX_NODES]

\* param_sampling: uniform(LEARNING_RATE_MIN, LEARNING_RATE_MAX), choice(IM_SIZES)
ParamSampling ==
    [learning_rate : LEARNING_RATE_MIN..LEARNING_RATE_MAX, im_size : IM_SIZES]

\* script_params = {'--data-folder': ds.as_mount()}
DATA_MOUNT == "$AZUREML_DATAREFERENCE_workspaceblobstore"

ScriptParams_nodatafolder == <<>>

ScriptParams == <<"--data-folder", DATA_MOUNT>>

\* HyperDriveConfig(...)
HyperDriveConfig_minimize ==
    [primary_metric_name |-> "accuracy", primary_metric_goal |-> "MINIMIZE",
     max_total_runs |-> MAX_TOTAL_RUNS, max_concurrent_runs |-> MAX_NODES]

HyperDriveConfig_concurrenttotal ==
    [primary_metric_name |-> "accuracy", primary_metric_goal |-> "MAXIMIZE",
     max_total_runs |-> MAX_TOTAL_RUNS, max_concurrent_runs |-> MAX_TOTAL_RUNS]

HyperDriveConfig_moreruns ==
    [primary_metric_name |-> "accuracy", primary_metric_goal |-> "MAXIMIZE",
     max_total_runs |-> MAX_TOTAL_RUNS + 1, max_concurrent_runs |-> MAX_NODES]

HyperDriveConfig_noconcurrency ==
    [primary_metric_name |-> "accuracy", primary_metric_goal |-> "MAXIMIZE",
     max_total_runs |-> MAX_TOTAL_RUNS, max_concurrent_runs |-> MAX_NODES - MAX_NODES]

HyperDriveConfig ==
    [primary_metric_name |-> "accuracy", primary_metric_goal |-> "MAXIMIZE",
     max_total_runs |-> MAX_TOTAL_RUNS, max_concurrent_runs |-> MAX_NODES]

\* The code cells in the order the notebook runs them, from the compute
\* target cell on
CellAfter_nowait(c) ==
    CASE c = "compute" -> "submit"
      [] c = "submit" -> "best"
      [] c = "wait" -> "best"
      [] c = "best" -> "download"
      [] c = "download" -> "glue"
      [] OTHER -> "end"

CellAfter(c) ==
    CASE c = "compute" -> "submit"
      [] c = "submit" -> "wait"
      [] c = "wait" -> "best"
      [] c = "best" -> "download"
      [] c = "download" -> "glue"
      [] OTHER -> "end"

\* joblib.load('im_classif_resnet.pkl')
LoadPath == "im_classif_resnet.pkl"

(***************************************************************************)
(* Inputs of the model                                                     *)
(***************************************************************************)
\* what the validation pass of a training run may report (percent)
Accuracies == {50, 90}

\* command lines train.py is started with on its own
ImSizeArgs == {None, Some(""), Some("150"), Some("300")}

LearningRateArgs == {None, Some(""), Some("1e-05"), Some("0.001")}

DataFolderArgs == {None, Some(""), Some("/mnt/ds")}

CommandLines ==
    [im_size : ImSizeArgs, learning_rate : LearningRateArgs, data_folder : DataFolderArgs]

\* the samples the sweep draws in the model: each end of the learning-rate
\* range, each image size
Draws ==
    {s \in ParamSampling :
        \/ s.learning_rate = LEARNING_RATE_MIN /\ s.im_size = 150
        \/ s.learning_rate = LEARNING_RATE_MAX /\ s.im_size = 300}

\* max_nodes of a cluster named CLUSTER_NAME that the workspace already has
ExistingMaxNodes == {1}

\* a file: None when absent, else the child run whose export it is (0: a file
\* left by an earlier session)
EarlierFile == Some(0)

LocalPaths ==
    {"im_classif_resnet.pkl", "outputs/im_classif_resnet.pkl",
     "im_classif_resnet_v2.pkl", "im_classif_resnet18.pth"}

VARIABLES
    proc,   \* the process running train.py on its own
    nb,     \* the notebook kernel: the cell being run and its variables
    ws,     \* the workspace on the platform: clusters, the sweep, its child runs
    fs      \* the local working directory of the notebook

vars == <<proc, nb, ws, fs>>

(***************************************************************************)
(* train.py on its own                                                     *)
(***************************************************************************)
NbStart ==
    [cell |-> "compute", step |-> "lookup", compute_target |-> None,
     lookup_raised |-> FALSE, create_calls |-> 0,
     best_run |-> None, best_accuracy |-> None, best_parameters |-> <<>>,
     downloads |-> 0, saved_model |-> None, glued |-> None]

WsEmpty == [clusters |-> <<>>, sweep |-> "NotSubmitted", runs |-> <<>>]

FsEmpty == [f \in LocalPaths |-> None]

InitTrain ==
    /\ proc \in {StartTrain(a) : a \in CommandLines}
    /\ nb = NbStart
    /\ ws = WsEmpty
    /\ fs = FsEmpty

\* the next statement of the script
TrainStatement ==
    /\ proc.pc \notin TrainTerminal
    /\ \E acc \in Accuracies : proc' = TrainStep(proc, acc)
    /\ UNCHANGED <<nb, ws, fs>>

\* the statements that call into fastai, azureml or the file system may raise
LibraryPcs ==
    {"databunch", "cnn_learner", "fit_head", "unfreeze", "fit_body", "metrics",
     "log_data_dir", "log_im_size", "log_learning_rate", "log_accuracy", "export"}

TrainCrash ==
    /\ proc.pc \in LibraryPcs
    /\ proc' = [proc EXCEPT !.pc = "crashed", !.error = "LibraryError"]
    /\ UNCHANGED <<nb, ws, fs>>

NextTrain == TrainStatement \/ TrainCrash

SpecTrain == InitTrain /\ [][NextTrain]_vars

(***************************************************************************)
(* The platform: clusters of the workspace                                 *)
(***************************************************************************)
\* indices of the clusters of the workspace that have the given name
ClustersNamed(name) == {i \in 1..Len(ws.clusters) : ws.clusters[i].name = name}

\* by: "cell" for a cluster the compute target cell created, "earlier" for
\* one the workspace already had
Cluster(name, max_nodes, state, by) ==
    [name |-> name, max_nodes |-> max_nodes, state |-> state, by |-> by]

(***************************************************************************)
(* Notebook: compute target cell                                           *)
(*     try: compute_target = ComputeTarget(workspace=ws, name=CLUSTER_NAME)*)
(*     except ComputeTargetException: ... ComputeTarget.create(...)        *)
(***************************************************************************)
\* the lookup with the except branch taken whatever the lookup did
ComputeLookup_alwayscreate ==
    /\ nb.cell = "compute" /\ nb.step = "lookup"
    /\ nb' = [nb EXCEPT !.step = "create",
                        !.lookup_raised = ClustersNamed(CLUSTER_NAME) = {}]
    /\ UNCHANGED <<proc, ws, fs>>

\* ComputeTarget(workspace=ws, name=CLUSTER_NAME): found, or ComputeTargetException
ComputeLookup ==
    /\ nb.cell = "compute" /\ nb.step = "lookup"
    /\ IF ClustersNamed(CLUSTER_NAME) # {}
       THEN nb' = [nb EXCEPT
                     !.compute_target =
                         Some(CHOOSE i \in ClustersNamed(CLUSTER_NAME) : TRUE),
                     !.step = "status"]
       ELSE nb' = [nb EXCEPT !.lookup_raised = TRUE, !.step = "create"]
    /\ UNCHANGED <<proc, ws, fs>>

\* except branch: compute_target = ComputeTarget.create(ws, CLUSTER_NAME, compute_config)
ComputeCreate ==
    /\ nb.cell = "compute" /\ nb.step = "create"
    /\ ws' = [ws EXCEPT !.clusters =
                 Append(@, Cluster(CLUSTER_NAME, ProvisioningConfiguration.max_nodes,
                                   "Creating", "cell"))]
    /\ nb' = [nb EXCEPT !.compute_target = Some(Len(ws.clusters) + 1),
                        !.create_calls = @ + 1,
                        !.step = "wait_for_completion"]
    /\ UNCHANGED <<proc, fs>>

\* compute_target.wait_for_completion(show_output=True): provisioning succeeds,
\* or fails and the cell ends with the platform's error
ComputeWait ==
    /\ nb.cell = "compute" /\ nb.step = "wait_for_completion"
    /\ \E ok \in BOOLEAN :
          /\ ws' = [ws EXCEPT !.clusters[Val(nb.compute_target)].state =
                                  IF ok THEN "Succeeded" ELSE "Failed"]
          /\ nb' = [nb EXCEPT !.step = IF ok THEN "status" ELSE "error"]
    /\ UNCHANGED <<proc, fs>>

\* print(compute_target.get_status().serialize()): the cell is finished
ComputeStatus ==
    /\ nb.cell = "compute" /\ nb.step = "status"
    /\ nb' = [nb EXCEPT !.step = "finished"]
    /\ UNCHANGED <<proc, ws, fs>>

\* the user runs the cell again, after it finished or ended with an error
ComputeRerun ==
    /\ nb.cell = "compute" /\ nb.step \in {"finished", "error"}
    /\ nb' = [nb EXCEPT !.step = "lookup", !.lookup_raised = FALSE, !.create_calls = 0]
    /\ UNCHANGED <<proc, ws, fs>>

\* the cells up to the submit cell only build configuration objects
ComputeProceed ==
    /\ nb.cell = "compute" /\ nb.step = "finished"
    /\ nb' = [nb EXCEPT !.cell = CellAfter("compute"), !.step = "run",
                        !.lookup_raised = FALSE, !.create_calls = 0]
    /\ UNCHANGED <<proc, ws, fs>>

(***************************************************************************)
(* The platform: the sweep and its child runs                              *)
(***************************************************************************)
RunIds == 1..Len(ws.runs)

WithStatus(S) == {i \in RunIds : ws.runs[i].status \in S}

ActiveRuns == WithStatus({"Queued", "Running"})

ExecutingRuns == WithStatus({"Running"})

\* the cluster the estimator was given: compute_target
TargetCluster == ws.clusters[Val(nb.compute_target)]

\* estimator arguments of a child run: script_params, then the sampled values
ChildArguments(sample) ==
    ScriptParams \o <<"--im_size", StrOfInt(sample.im_size),
                      "--learning_rate", StrOfFloat(sample.learning_rate)>>

\* the value argparse finds for an option in an argument list
ArgValue(args, flag) ==
    LET hits == {i \in 1..(Len(args) - 1) : args[i] = flag}
    IN  IF hits = {} THEN None
        ELSE Some(args[(CHOOSE i \in hits : \A j \in hits : j <= i) + 1])

ArgvOf(args) ==
    [im_size |-> ArgValue(args, "--im_size"),
     learning_rate |-> ArgValue(args, "--learning_rate"),
     data_folder |-> ArgValue(args, "--data-folder")]

DRIVER_LOG == "azureml-logs/70_driver_log.txt"

\* what the platform keeps of a child run that ran train.py as far as p
ChildRecord(args, status, p) ==
    [arguments |-> args, status |-> status,
     accuracy |-> LoggedNum(p, HyperDriveConfig.primary_metric_name),
     files |-> {DRIVER_LOG} \cup Exported(p)]

\* train.py in a child run, run up to the statement at pc stop ("done": to its
\* end), for each argument list the sweep can launch and each accuracy
ChildRun ==
    [args \in {ChildArguments(s) : s \in Draws}, acc \in Accuracies,
     stop \in LibraryPcs \cup {"done"} |->
        RunUntil(StartTrain(ArgvOf(args)), acc, stop)]

\* HyperDrive launches a child run: below max_total_runs and max_concurrent_runs
LaunchChild ==
    /\ ws.sweep = "Running"
    /\ Len(ws.runs) < HyperDriveConfig.max_total_runs
    /\ Cardinality(ActiveRuns) < HyperDriveConfig.max_concurrent_runs
    /\ \E sample \in Draws :
          ws' = [ws EXCEPT !.runs =
                    Append(@, [arguments |-> ChildArguments(sample), status |-> "Queued",
                               accuracy |-> None, files |-> {}])]
    /\ UNCHANGED <<proc, nb, fs>>

\* the cluster gives a queued run a node, while it has one left
StartChild(i) ==
    /\ ws.runs[i].status = "Queued"
    /\ TargetCluster.state = "Succeeded"
    /\ Cardinality(ExecutingRuns) < TargetCluster.max_nodes
    /\ ws' = [ws EXCEPT !.runs[i].status = "Running"]
    /\ UNCHANGED <<proc, nb, fs>>

\* a child run executes train.py to its end
FinishChild(i) ==
    /\ ws.runs[i].status = "Running"
    /\ \E acc \in Accuracies :
          LET p == ChildRun[ws.runs[i].arguments, acc, "done"]
          IN  ws' = [ws EXCEPT !.runs[i] =
                        ChildRecord(ws.runs[i].arguments,
                                    IF p.pc = "done" THEN "Completed" ELSE "Failed", p)]
    /\ UNCHANGED <<proc, nb, fs>>

\* a library call of train.py raises in a child run: the run fails there
FailChild(i) ==
    /\ ws.runs[i].status = "Running"
    /\ \E acc \in Accuracies, stop \in LibraryPcs :
          LET p == ChildRun[ws.runs[i].arguments, acc, stop]
          IN  ws' = [ws EXCEPT !.runs[i] = ChildRecord(ws.runs[i].arguments, "Failed", p)]
    /\ UNCHANGED <<proc, nb, fs>>

\* a child run is canceled while it waits for a node
CancelChild(i) ==
    /\ ws.runs[i].status = "Queued"
    /\ ws' = [ws EXCEPT !.runs[i].status = "Canceled"]
    /\ UNCHANGED <<proc, nb, fs>>

\* the sweep ends when max_total_runs child runs were launched and all ended
SweepEnd ==
    /\ ws.sweep = "Running"
    /\ Len(ws.runs) >= HyperDriveConfig.max_total_runs
    /\ ActiveRuns = {}
    /\ ws' = [ws EXCEPT !.sweep = "Completed"]
    /\ UNCHANGED <<proc, nb, fs>>

\* primary_metric_goal: is accuracy a at least as good as accuracy b
AtLeastAsGood(a, b) ==
    IF HyperDriveConfig.primary_metric_goal = "MAXIMIZE" THEN a >= b ELSE a <= b

\* the completed child runs that logged the primary metric
Candidates == {i \in WithStatus({"Completed"}) : ~IsNone(ws.runs[i].accuracy)}

BestRuns ==
    {i \in Candidates :
        \A j \in Candidates : AtLeastAsGood(Val(ws.runs[i].accuracy), Val(ws.runs[j].accuracy))}

(***************************************************************************)
(* Notebook: submit, wait, best run, download, glue                        *)
(***************************************************************************)
\* hyperdrive_run = exp.submit(config=hyperdrive_run_config)
Submit ==
    /\ nb.cell = "submit"
    /\ ws' = [ws EXCEPT !.sweep = "Running", !.runs = <<>>]
    /\ nb' = [nb EXCEPT !.cell = CellAfter("submit")]
    /\ UNCHANGED <<proc, fs>>

\* hyperdrive_run.wait_for_completion(): returns once the sweep has ended
WaitForCompletion ==
    /\ nb.cell = "wait"
    /\ ws.sweep = "Completed"
    /\ nb' = [nb EXCEPT !.cell = CellAfter("wait")]
    /\ UNCHANGED <<proc, ws, fs>>

\* the pairing with the first value of a repeated flag kept
DictZip_firstwins(v) ==
    LET n == Len(v) \div 2
        keys == {v[2 * i - 1] : i \in 1..n}
    IN  [k \in keys |->
            v[2 * (CHOOSE i \in 1..n : v[2 * i - 1] = k /\
                       \A j \in 1..n : v[2 * j - 1] = k => i <= j)]]

\* dict(zip(parameter_values[::2], parameter_values[1::2]))
DictZip(v) ==
    LET n == Len(v) \div 2
        keys == {v[2 * i - 1] : i \in 1..n}
    IN  [k \in keys |->
            v[2 * (CHOOSE i \in 1..n : v[2 * i - 1] = k /\
                       \A j \in 1..n : v[2 * j - 1] = k => j <= i)]]

\* best_run = hyperdrive_run.get_best_run_by_primary_metric(); get_metrics();
\* get_details()['runDefinition']['arguments']; best_parameters
BestRun ==
    /\ nb.cell = "best"
    /\ IF BestRuns = {}
       THEN nb' = [nb EXCEPT !.cell = "error"]
       ELSE \E i \in BestRuns :
               nb' = [nb EXCEPT !.best_run = Some(i),
                                !.best_accuracy = ws.runs[i].accuracy,
                                !.best_parameters = DictZip(ws.runs[i].arguments),
                                !.cell = CellAfter("best")]
    /\ UNCHANGED <<proc, ws, fs>>

\* f.startswith('outputs/im_classif_resnet'), for the file names of a run
StartsWithModelName(f) ==
    f \in {"outputs/im_classif_resnet.pkl", "outputs/im_classif_resnet_v2.pkl",
           "outputs/im_classif_resnet18.pth"}

\* best_run.download_file(name): into the working directory, under its base name
DownloadedAs(name) ==
    CASE name = "outputs/im_classif_resnet.pkl" -> "im_classif_resnet.pkl"
      [] name = "outputs/im_classif_resnet_v2.pkl" -> "im_classif_resnet_v2.pkl"
      [] name = "outputs/im_classif_resnet18.pth" -> "im_classif_resnet18.pth"
      [] OTHER -> "?"

\* the loop downloading each matching file under its own name
DownloadName_own(f) == f

\* the name the loop passes to download_file at the file name f
DownloadName(f) == "outputs/im_classif_resnet.pkl"

\* the run whose files the download cell lists and downloads: best_run
DownloadFrom_first == CHOOSE i \in 1..Len(ws.runs) : \A j \in 1..Len(ws.runs) : i <= j

DownloadFrom == Val(nb.best_run)

\* the loop over best_run.get_file_names(), then joblib.load; download_file
\* of a name the run does not have raises, which ends the cell
Download ==
    /\ nb.cell = "download"
    /\ LET run == ws.runs[DownloadFrom]
           hits == {f \in run.files : StartsWithModelName(f)}
           asked == {DownloadName(f) : f \in hits}
           after == [p \in LocalPaths |->
                        IF \E a \in asked : DownloadedAs(a) = p
                        THEN Some(DownloadFrom) ELSE fs[p]]
       IN  IF asked \ run.files # {}
           THEN /\ fs' = fs
                /\ nb' = [nb EXCEPT !.downloads = 1, !.cell = "error"]
           ELSE /\ fs' = after
                /\ IF IsNone(after[LoadPath])
                   THEN nb' = [nb EXCEPT !.downloads = Cardinality(hits), !.cell = "error"]
                   ELSE nb' = [nb EXCEPT !.downloads = Cardinality(hits),
                                         !.saved_model = after[LoadPath],
                                         !.cell = CellAfter("download")]
    /\ UNCHANGED <<proc, ws>>

\* sb.glue("best_accuracy", best_run_metrics['accuracy'])
Glue ==
    /\ nb.cell = "glue"
    /\ nb' = [nb EXCEPT !.glued = nb.best_accuracy, !.cell = CellAfter("glue")]
    /\ UNCHANGED <<proc, ws, fs>>

(***************************************************************************)
(* The notebook with its platform                                          *)
(***************************************************************************)
Init ==
    /\ proc = StartTrain([im_size |-> None, learning_rate |-> None, data_folder |-> None])
    /\ nb = NbStart
    /\ \/ ws = WsEmpty
       \/ \E m \in ExistingMaxNodes :
             ws = [WsEmpty EXCEPT !.clusters =
                      <<Cluster(CLUSTER_NAME, m, "Succeeded", "earlier")>>]
    /\ \E old \in {None, EarlierFile} :
          fs = [FsEmpty EXCEPT !["im_classif_resnet.pkl"] = old]

Next ==
    \/ ComputeLookup
    \/ ComputeCreate
    \/ ComputeWait
    \/ ComputeStatus
    \/ ComputeRerun
    \/ ComputeProceed
    \/ Submit
    \/ LaunchChild
    \/ \E i \in RunIds : StartChild(i)
    \/ \E i \in RunIds : FinishChild(i)
    \/ \E i \in RunIds : FailChild(i)
    \/ \E i \in RunIds : CancelChild(i)
    \/ SweepEnd
    \/ WaitForCompletion
    \/ BestRun
    \/ Download
    \/ Glue

Spec == Init /\ [][Next]_vars

(***************************************************************************)
(* The best-run cell on its own, for any argument list of the best run     *)
(***************************************************************************)
MaxArgs == 5

ZipTokens == {"--im_size", "--learning_rate", "150"}

ArgumentLists == UNION {[1..k -> ZipTokens] : k \in 0..MaxArgs}

\* the workspace after a sweep that left the one child run r
AfterSweep(r) ==
    /\ proc = StartTrain([im_size |-> None, learning_rate |-> None, data_folder |-> None])
    /\ ws = [clusters |-> <<Cluster(CLUSTER_NAME, ProvisioningConfiguration.max_nodes,
                                     "Succeeded", "cell")>>,
             sweep |-> "Completed", runs |-> <<r>>]

InitZip ==
    /\ \E v \in ArgumentLists, acc \in Accuracies :
          AfterSweep([arguments |-> v, status |-> "Completed",
                      accuracy |-> Some(acc), files |-> {DRIVER_LOG, EXPORT_PATH}])
    /\ nb = [NbStart EXCEPT !.cell = "best", !.step = "run", !.compute_target = Some(1)]
    /\ fs = FsEmpty

NextZip == BestRun

SpecZip == InitZip /\ [][NextZip]_vars

(***************************************************************************)
(* The download cell on its own, for any file names of the best run        *)
(***************************************************************************)
FileNames ==
    {EXPORT_PATH, "outputs/im_classif_resnet_v2.pkl", "outputs/im_classif_resnet18.pth",
     "outputs/history.csv", DRIVER_LOG}

InitDownload ==
    /\ \E files \in SUBSET FileNames, sample \in Draws, acc \in Accuracies :
          /\ AfterSweep([arguments |-> ChildArguments(sample), status |-> "Completed",
                         accuracy |-> Some(acc), files |-> files])
          /\ \E i \in 1..Len(ws.runs) :
                nb = [NbStart EXCEPT !.cell = "download", !.step = "run",
                                     !.compute_target = Some(1),
                                     !.best_run = Some(i),
                                     !.best_accuracy = ws.runs[i].accuracy,
                                     !.best_parameters = DictZip(ws.runs[i].arguments)]
    /\ \E old \in {None, EarlierFile} : fs = [FsEmpty EXCEPT ![LoadPath] = old]

NextDownload == Download \/ Glue

SpecDownload == InitDownload /\ [][NextDownload]_vars

\* a launched child run moves on: it gets a node, ends, fails or is canceled
ChildProgress(i) ==
    /\ i \in RunIds
    /\ StartChild(i) \/ FinishChild(i) \/ FailChild(i) \/ CancelChild(i)

\* The sweep under a platform that keeps working: the scheduler launches a
\* child run whenever it may, every launched child run moves on until it has
\* ended, the sweep ends once its runs have, and wait_for_completion returns
\* once the sweep has ended.
SpecFair ==
    /\ Spec
    /\ WF_vars(LaunchChild)
    /\ \A i \in 1..HyperDriveConfig.max_total_runs : WF_vars(ChildProgress(i))
    /\ WF_vars(SweepEnd)
    /\ WF_vars(WaitForCompletion)

(***************************************************************************)
(* Properties of train.py (checked under SpecTrain)                        *)
(***************************************************************************)
GuardErrors == {"Image Size empty", "Learning Rate empty", "Data folder empty"}

GuardPcs == {"parse_args", "guard_im_size", "guard_learning_rate", "guard_data_dir"}

EmptyOrMissing(o) == IsNone(o) \/ o = Some("")

\* the values of --im_size and --learning_rate that int() and float() accept
Accepted(argv) ==
    /\ argv.im_size \in {None, Some("150"), Some("300")}
    /\ argv.learning_rate \in {None, Some("1e-05"), Some("0.001")}

\* the error the three guards raise for a command line parse_args accepted
GuardErrorFor(argv) ==
    CASE IsNone(argv.im_size) -> "Image Size empty"
      [] IsNone(argv.learning_rate) -> "Learning Rate empty"
      [] IsNone(argv.data_folder) -> "Data folder empty"
      [] OTHER -> "none"

\* C1 as stated: once the script is past its guards, it has raised one of the
\* three ValueErrors exactly when one of --im_size, --learning_rate and
\* --data-folder is empty or missing.
C1_EmptyOrMissingRaises ==
    proc.pc \notin GuardPcs =>
        ((proc.error \in GuardErrors) <=>
            \/ EmptyOrMissing(proc.argv.im_size)
            \/ EmptyOrMissing(proc.argv.learning_rate)
            \/ EmptyOrMissing(proc.argv.data_folder))

\* C1 amended: for a command line that parse_args accepts, a missing option
\* makes the script raise the ValueError of the first missing one (image size,
\* then learning rate, then data folder), and no option missing raises none of
\* the three; a command line parse_args does not accept (an empty --im_size or
\* --learning_rate) ends in SystemExit with no ValueError, and an empty
\* --data-folder passes the guards.
C1_MissingRaises ==
    proc.pc \notin GuardPcs =>
        /\ Accepted(proc.argv) /\ GuardErrorFor(proc.argv) # "none"
              => proc.pc = "raised" /\ proc.error = GuardErrorFor(proc.argv)
        /\ Accepted(proc.argv) /\ GuardErrorFor(proc.argv) = "none"
              => proc.error \notin GuardErrors
        /\ ~Accepted(proc.argv) => proc.pc = "exited" /\ proc.error = "SystemExit"

\* C1 witness: the learning-rate guard has raised for a command line that has
\* an image size and no learning rate
C1_Witness ==
    /\ proc.pc = "raised"
    /\ proc.error = "Learning Rate empty"
    /\ proc.argv.im_size = Some("150")
    /\ IsNone(proc.argv.learning_rate)

\* C3: a run in which a guard raised has stopped there and has had no effect:
\* no data was loaded, no phase was trained, nothing was logged or exported.
C3_GuardAbortsBeforeEffects ==
    proc.error \in GuardErrors => proc.pc = "raised" /\ proc.trace = <<>>

\* C3 witness: the data-folder guard has raised
C3_Witness ==
    /\ proc.pc = "raised"
    /\ proc.error = "Data folder empty"
    /\ IsNone(proc.argv.data_folder)

\* the effects of a run that passes the guards, in order
FixedOrder(dir, size, lr, acc) ==
    << EvData(dir, size),
       EvFit(EPOCHS_HEAD, lr, TRUE),
       EvUnfreeze,
       EvFit(EPOCHS_BODY, lr, FALSE),
       EvLogText("data_dir", dir),
       EvLogNum("im_size", size),
       EvLogNum("learning_rate", lr),
       EvLogNum("accuracy", acc),
       EvExport(EXPORT_PATH) >>

IsPrefixOf(s, t) == Len(s) <= Len(t) /\ \A i \in 1..Len(s) : s[i] = t[i]

SuppliedImSize(argv) == IF argv.im_size = Some("150") THEN 150 ELSE 300

SuppliedLearningRate(argv) == IF argv.learning_rate = Some("1e-05") THEN 1 ELSE 100

\* C8: past the guards, what the run has done so far is an initial part of
\* head phase, unfreeze, full-network phase, the four log entries, export, with
\* the supplied image size and learning rate; a finished run has done all of it.
C8_FixedOrder ==
    proc.pc \notin GuardPcs \cup {"raised", "exited"} =>
        LET expected ==
                FixedOrder(Val(proc.argv.data_folder), SuppliedImSize(proc.argv),
                           SuppliedLearningRate(proc.argv),
                           IF IsNone(proc.accuracy) THEN 0 ELSE Val(proc.accuracy))
        IN  /\ IsPrefixOf(proc.trace, expected)
            /\ proc.pc = "done" => proc.trace = expected

\* C8 witness: a run with --im_size 300 has finished
C8_Witness ==
    /\ proc.pc = "done"
    /\ proc.argv.im_size = Some("300")
    /\ Len(proc.trace) = 9

RECURSIVE Epochs(_, _)
\* the epochs trained with the body frozen (or not) in a trace
Epochs(trace, frozen) ==
    IF trace = <<>> THEN 0
    ELSE (IF Head(trace).op = "fit_one_cycle" /\ Head(trace).frozen = frozen
          THEN Head(trace).num ELSE 0) + Epochs(Tail(trace), frozen)

\* C9: a run that reached the export has trained 4 epochs with the body frozen
\* and 12 epochs unfrozen, 16 in all, whatever its learning rate and image size.
C9_SixteenEpochs ==
    (\E i \in 1..Len(proc.trace) : proc.trace[i].op = "export") =>
        /\ Epochs(proc.trace, TRUE) = 4
        /\ Epochs(proc.trace, FALSE) = 12
        /\ Epochs(proc.trace, TRUE) + Epochs(proc.trace, FALSE) = 16

\* C9 witness: a run with the smallest learning rate has exported its model
C9_Witness ==
    /\ proc.pc = "done"
    /\ proc.argv.learning_rate = Some("1e-05")
    /\ proc.trace[Len(proc.trace)].op = "export"

(***************************************************************************)
(* Properties of the notebook (checked under Spec)                         *)
(***************************************************************************)
Completed == WithStatus({"Completed"})

C4_GetOrCreate ==
    /\ Cardinality(ClustersNamed(CLUSTER_NAME)) <= 1
    /\ nb.create_calls <= 1
    /\ nb.create_calls > 0 => nb.lookup_raised
    /\ (\E i \in ClustersNamed(CLUSTER_NAME) : ws.clusters[i].by = "earlier")
          => nb.create_calls = 0
    /\ nb.cell = "compute" /\ nb.step = "finished"
          => /\ ~IsNone(nb.compute_target)
             /\ ClustersNamed(CLUSTER_NAME) = {Val(nb.compute_target)}

\* C4 witness: the cell was run again after it had created the cluster, and
\* finished by loading that cluster without creating another
C4_Witness ==
    /\ nb.cell = "compute" /\ nb.step = "finished"
    /\ nb.create_calls = 0
    /\ ~nb.lookup_raised
    /\ ws.clusters[Val(nb.compute_target)].by = "cell"

\* C5 as stated: the child runs executing at once are at most MAX_NODES, and
\* max_concurrent_runs is the max_nodes of the cluster the sweep runs on.
C5_ConcurrentEqualsClusterNodes ==
    ws.sweep # "NotSubmitted" =>
        /\ Cardinality(ExecutingRuns) <= MAX_NODES
        /\ HyperDriveConfig.max_concurrent_runs = TargetCluster.max_nodes

\* C5 amended: the child runs the sweep has queued or executing are at most
\* max_concurrent_runs = MAX_NODES, those executing are at most the cluster's
\* max_nodes, and max_concurrent_runs is the cluster's max_nodes when the
\* compute target cell created the cluster (a cluster the workspace already
\* had keeps its own max_nodes).
C5_ConcurrentWithinMaxNodes ==
    ws.sweep # "NotSubmitted" =>
        /\ Cardinality(ActiveRuns) <= MAX_NODES
        /\ Cardinality(ExecutingRuns) <= MAX_NODES
        /\ Cardinality(ExecutingRuns) <= TargetCluster.max_nodes
        /\ TargetCluster.by = "cell"
              => TargetCluster.max_nodes = HyperDriveConfig.max_concurrent_runs

\* C5 witness: MAX_NODES child runs execute at once while the sweep has runs
\* left to launch
C5_Witness ==
    /\ Cardinality(ExecutingRuns) = MAX_NODES
    /\ Len(ws.runs) < MAX_TOTAL_RUNS
    /\ ws.sweep = "Running"

\* C6: the child runs the sweep has launched are at most MAX_TOTAL_RUNS.
C6_TotalRunsCapped == Len(ws.runs) <= MAX_TOTAL_RUNS

\* C6 witness: MAX_TOTAL_RUNS runs were launched, of which one failed, one was
\* canceled and one completed
C6_Witness ==
    /\ Len(ws.runs) = MAX_TOTAL_RUNS
    /\ WithStatus({"Failed"}) # {}
    /\ WithStatus({"Canceled"}) # {}
    /\ Completed # {}

\* C7: from the best-run cell on, wait_for_completion has returned: the sweep
\* has ended and no child run is queued or running.
C7_BestAfterCompletion ==
    nb.cell \in {"best", "download", "glue", "end", "error"} =>
        /\ ws.sweep = "Completed"
        /\ ActiveRuns = {}

\* C7 witness: the notebook is at the best-run cell with all runs launched
C7_Witness ==
    /\ nb.cell = "best"
    /\ Len(ws.runs) = MAX_TOTAL_RUNS
    /\ IsNone(nb.best_run)

\* C10: when the download cell has finished, saved_model was loaded from the
\* local copy of outputs/im_classif_resnet.pkl of the best run, a file that
\* run exported.
C10_DownloadsBestModel ==
    nb.cell \in {"glue", "end"} =>
        /\ EXPORT_PATH \in ws.runs[Val(nb.best_run)].files
        /\ fs[LoadPath] = nb.best_run
        /\ nb.saved_model = nb.best_run
        /\ nb.downloads = 1

\* C10 witness: the model of a best run other than the first child run was
\* loaded, in a sweep whose first child run exported a model too
C10_Witness ==
    /\ nb.cell = "glue"
    /\ ~IsNone(nb.saved_model)
    /\ nb.saved_model # Some(1)
    /\ 1 \in Completed

\* C11: every child run the sweep has launched has --data-folder from
\* script_params, an --im_size of IM_SIZES and a --learning_rate between
\* LEARNING_RATE_MIN and LEARNING_RATE_MAX on its command line, and train.py
\* run on that command line passes parse_args and the three guards.
C11_ChildArgumentsInSearchSpace ==
    \A i \in RunIds :
        LET args == ws.runs[i].arguments
            size == ArgValue(args, "--im_size")
            rate == ArgValue(args, "--learning_rate")
        IN  /\ ArgValue(args, "--data-folder") = Some(DATA_MOUNT)
            /\ ~IsNone(size) /\ ~IsNone(IntOf(Val(size)))
            /\ Val(IntOf(Val(size))) \in IM_SIZES
            /\ ~IsNone(rate) /\ ~IsNone(FloatOf(Val(rate)))
            /\ Val(FloatOf(Val(rate))) >= LEARNING_RATE_MIN
            /\ Val(FloatOf(Val(rate))) <= LEARNING_RATE_MAX
            /\ \A acc \in Accuracies :
                  LET p == ChildRun[args, acc, "databunch"]
                  IN  p.pc = "databunch" /\ p.error = "none"

\* C11 witness: a child run with the largest learning rate and image size 300
\* is executing
C11_Witness ==
    \E i \in ExecutingRuns :
        /\ ArgValue(ws.runs[i].arguments, "--learning_rate") = Some("0.001")
        /\ ArgValue(ws.runs[i].arguments, "--im_size") = Some("300")

\* C12: under a platform that keeps working, a submitted sweep eventually
\* ends, having launched at most MAX_TOTAL_RUNS child runs, and the notebook
\* waiting in wait_for_completion eventually gets to the best-run cell.
C12_SweepTerminates ==
    (nb.cell = "wait") ~>
        (/\ nb.cell = "best"
         /\ ws.sweep = "Completed"
         /\ Len(ws.runs) <= MAX_TOTAL_RUNS
         /\ ActiveRuns = {})

\* C12 witness: the best-run cell is reached after a sweep in which one child
\* run failed and one was canceled
C12_Witness ==
    /\ nb.cell = "best"
    /\ ws.sweep = "Completed"
    /\ WithStatus({"Failed"}) # {}
    /\ WithStatus({"Canceled"}) # {}

\* C13: best_parameters pairs the best run's argument list by position: its
\* keys are exactly the elements at the odd positions that have a successor,
\* each key has the value that follows its last occurrence as a key, and the
\* unpaired last element of a list of odd length is dropped.
C13_PairsByPosition ==
    ~IsNone(nb.best_run) =>
        LET v == ws.runs[Val(nb.best_run)].arguments
            d == nb.best_parameters
            n == Len(v) \div 2
            Later(i) == {j \in 1..n : j > i /\ v[2 * j - 1] = v[2 * i - 1]}
        IN  /\ DOMAIN d = {v[2 * i - 1] : i \in 1..n}
            /\ \A i \in 1..n : Later(i) = {} => d[v[2 * i - 1]] = v[2 * i]
            /\ (Len(v) = 2 * n /\ Cardinality(DOMAIN d) = n) =>
                  \A i \in 1..n : d[v[2 * i - 1]] = v[2 * i]

\* C13 witness: best_parameters was built from an argument list of odd length
\* that repeats a flag with two different values
C13_Witness ==
    /\ ~IsNone(nb.best_run)
    /\ LET v == ws.runs[Val(nb.best_run)].arguments
       IN  /\ Len(v) % 2 = 1
           /\ \E i, j \in 1..(Len(v) \div 2) :
                 i < j /\ v[2 * i - 1] = v[2 * j - 1] /\ v[2 * i] # v[2 * j]

====
